---- MODULE Spec2Model ----
(***************************************************************************)
(* Model of src/set.h: Set<ValueType>, an ordered set kept in an AVL tree  *)
(* whose nodes carry a key, a cached height, a cached subtree size and     *)
(* left / right / parent links.  ValueType is int.                         *)
(*                                                                         *)
(* The heap is a function from node addresses to TreeNode records; a       *)
(* TreeNode*& parameter is modelled by returning the new value of the      *)
(* referenced slot, which the caller stores back into that slot.           *)
(***************************************************************************)
EXTENDS Integers, Sequences, FiniteSets, TLC

\* ------------------------------------------------------------------------
\* Bounds

\* keys of the single-set specification Spec are 1..MaxKey
MaxKey == 7
\* keys of the two-set specification SpecCopy are 1..MaxCopyKey
MaxCopyKey == 3
\* keys of the iterator specification SpecIter are 1..MaxIterKey
MaxIterKey == 4
\* width of size_t and of int, scaled down (heights stay far below both)
SizeBits == 16
IntBits == 8
\* the specification SpecBalance builds a left tree over 1..MaxSideKey and a
\* right tree over MaxSideKey+2..2*MaxSideKey+1 below the key MaxSideKey+1
MaxSideKey == 4
\* the range and initializer-list constructors of SpecCopy take at most
\* MaxInitLen values
MaxInitLen == 2

Keys == 1..MaxKey
CopyKeys == 1..MaxCopyKey
IterKeys == 1..MaxIterKey
Sets == {"a", "b"}
InitLists == UNION {[1..n -> CopyKeys] : n \in 0..MaxInitLen}
LeftKeys == 1..MaxSideKey
Pivot == MaxSideKey + 1
RightKeys == (MaxSideKey + 2)..(2 * MaxSideKey + 1)
\* values of the cached fields of a node that update() has not yet visited
StaleFields == 1..2

NULL == 0
Max(x, y) == IF x < y THEN y ELSE x

\* every key k of Set s has an address of its own, Arena(s) + k
ArenaSize == Max(Max(MaxKey, MaxCopyKey), 2 * MaxSideKey + 1)
Ids == 1..(2 * ArenaSize)
Arena(s) == IF s = "a" THEN 0 ELSE ArenaSize

\* ------------------------------------------------------------------------
\* State

VARIABLES
    mem,      \* the heap: [node: address -> TreeNode, live: allocated addresses]
    root,     \* root[s]: the root field of Set object s
    alive,    \* the Set objects that are constructed and not yet destroyed
    it,       \* one iterator object of the client: [node, parent]
    last,     \* the last public operation: its name, arguments and what
              \* the client observed right before it
    log,      \* what the last public operation did on its way: the addresses
              \* it passed to delete, in order, and the balance factors that
              \* its balance() calls computed
    stale     \* whether the node or the Set the iterator points at was
              \* released or destroyed since the iterator was set: reading
              \* through it is then undefined behaviour, whatever object
              \* lives at that address by now

vars == <<mem, root, alive, it, last, log, stale>>

\* Inside an operation the heap m carries the log with it:
\* [node, live, freed, bals].

\* TreeNode(key, parent): height = 1, cnt = 1, no children
TreeNode(key, parent) ==
    [key |-> key, height |-> 1, cnt |-> 1,
     left |-> NULL, right |-> NULL, parent |-> parent]

\* content of an address that holds no object
Garbage == TreeNode(0, NULL)

\* a heap and a pointer: what a function leaves behind, t being its return
\* value or the value it wrote through its TreeNode*& parameter
Ret(m, t) == [m |-> m, t |-> t]

\* the caller's slot p->left (p->right) was the TreeNode*& argument of res
StoreLeft(res, p) == [res.m EXCEPT !.node[p].left = res.t]

StoreRight(res, p) == [res.m EXCEPT !.node[p].right = res.t]

\* the address operator new returns: some address not in use.  The code
\* never orders or hashes addresses, so one representative is taken: slot
\* pref when it is free, else the lowest free one.
Address(free, pref) ==
    IF pref \in free THEN pref ELSE CHOOSE i \in free : \A j \in free : i <= j

Construct(m, a, rec) ==
    Ret([m EXCEPT !.node[a] = rec, !.live = @ \cup {a}], a)

\* new TreeNode(...)
new(m, arena, rec) == Construct(m, Address(Ids \ m.live, arena + rec.key), rec)

\* delete t
delete(m, t) ==
    [m EXCEPT !.node[t] = Garbage, !.live = @ \ {t}, !.freed = Append(@, t)]

\* ------------------------------------------------------------------------
\* Helper functions

height(m, t) == IF t # NULL THEN m.node[t].height ELSE 0

cnt(m, t) == IF t # NULL THEN m.node[t].cnt ELSE 0

\* size_t arithmetic wraps modulo 2^SizeBits
SizeMod == 2 ^ SizeBits

IntMod == 2 ^ IntBits

Wrap(x) == x % SizeMod

\* conversion of an unsigned value to int keeps the low IntBits bits
Signed(v) == IF v >= IntMod \div 2 THEN v - IntMod ELSE v

\* the conversion to an unsigned type of the width of int: no negative values
NarrowUnsigned(u) == u % IntMod

Narrow(u) == Signed(u % IntMod)

getBalance(m, t) ==
    Narrow(Wrap(height(m, m.node[t].right) - height(m, m.node[t].left)))

\* update() without t->parent = nullptr: the node keeps its old parent link
RecomputedKeepsParent(m, n) ==
    [n EXCEPT !.height = Wrap(Max(height(m, n.left), height(m, n.right)) + 1),
              !.cnt = Wrap(Wrap(cnt(m, n.left) + 1) + cnt(m, n.right))]

\* t->height, t->cnt and t->parent as update(t) sets them
Recomputed(m, n) ==
    [n EXCEPT !.height = Wrap(Max(height(m, n.left), height(m, n.right)) + 1),
              !.cnt = Wrap(Wrap(cnt(m, n.left) + 1) + cnt(m, n.right)),
              !.parent = NULL]

\* Adopt without the write: the child keeps its old parent link
AdoptNothing(h, c, t) == h

\* if (c) c->parent = t
Adopt(h, c, t) == IF c # NULL THEN [h EXCEPT ![c].parent = t] ELSE h

update(m, t) ==
    IF t = NULL THEN m
    ELSE [m EXCEPT !.node =
             Adopt(Adopt([m.node EXCEPT ![t] = Recomputed(m, m.node[t])],
                         m.node[t].left, t),
                   m.node[t].right, t)]

Less(a, b) == a < b

\* isKeyEqual with one of its two comparisons left out
isKeyEqualOneSided(a, b) == ~Less(a, b)

isKeyEqual(a, b) == ~Less(a, b) /\ ~Less(b, a)

\* ------------------------------------------------------------------------
\* Balance

\* rotateRight with update(v) before update(u)
rotateRightAtWrongOrder(m, u, v) ==
    Ret(update(update([m EXCEPT !.node[u].left = m.node[v].right,
                                !.node[v].right = u], v), u), v)

\* rotateRight(u) with v = u->left
rotateRightAt(m, u, v) ==
    Ret(update(update([m EXCEPT !.node[u].left = m.node[v].right,
                                !.node[v].right = u], u), v), v)

rotateRight(m, u) == rotateRightAt(m, u, m.node[u].left)

\* rotateLeft(v) with u = v->right
\* rotateLeft without the final v = u: the slot keeps naming v
rotateLeftAtNoWriteBack(m, v, u) ==
    Ret(update(update([m EXCEPT !.node[v].right = m.node[u].left,
                                !.node[u].left = v], v), u), v)

rotateLeftAt(m, v, u) ==
    Ret(update(update([m EXCEPT !.node[v].right = m.node[u].left,
                                !.node[u].left = v], v), u), u)

\* rotateLeft that leaves the subtree as it is
rotateLeftNothing(m, v) == Ret(m, v)

rotateLeft(m, v) == rotateLeftAt(m, v, m.node[v].right)

\* balance(t) without the inner rotation of the child that leans inwards
RebalanceSingleOnly(m, t, t_balance) ==
    IF t_balance = 2 THEN rotateLeft(m, t)
    ELSE IF t_balance = -2 THEN rotateRight(m, t)
    ELSE Ret(m, t)

\* balance(t) after its update(t), with t_balance = getBalance(t)
Rebalance(m, t, t_balance) ==
    IF t_balance = 2 THEN
        rotateLeft(IF getBalance(m, m.node[t].right) < 0
                   THEN StoreRight(rotateRight(m, m.node[t].right), t)
                   ELSE m, t)
    ELSE IF t_balance = -2 THEN
        rotateRight(IF getBalance(m, m.node[t].left) > 0
                    THEN StoreLeft(rotateLeft(m, m.node[t].left), t)
                    ELSE m, t)
    ELSE Ret(m, t)

\* the heap with one more balance factor noted: the two cached heights read
\* and the int that getBalance returned
Noted(m, t) ==
    [m EXCEPT !.bals = @ \cup {[l |-> height(m, m.node[t].left),
                                r |-> height(m, m.node[t].right),
                                b |-> getBalance(m, t)]}]

\* balance(t) from its update(t) on
Updated(m, t) == Rebalance(Noted(m, t), t, getBalance(m, t))

balance(m, t) ==
    IF t = NULL THEN Ret(m, NULL) ELSE Updated(update(m, t), t)

\* ------------------------------------------------------------------------
\* Methods

RECURSIVE findMin(_, _)
findMin(m, t) ==
    IF t # NULL /\ m.node[t].left # NULL THEN findMin(m, m.node[t].left) ELSE t

RECURSIVE findMax(_, _)
findMax(m, t) ==
    IF t # NULL /\ m.node[t].right # NULL THEN findMax(m, m.node[t].right) ELSE t

RECURSIVE eraseMin(_, _)
\* eraseMin with update(t) in the place of balance(t)
eraseMinNoRotation(m, t) ==
    IF m.node[t].left = NULL THEN Ret(m, m.node[t].right)
    ELSE Ret(update(StoreLeft(eraseMin(m, m.node[t].left), t), t), t)

eraseMin(m, t) ==
    IF m.node[t].left = NULL THEN Ret(m, m.node[t].right)
    ELSE balance(StoreLeft(eraseMin(m, m.node[t].left), t), t)

RECURSIVE eraseMax(_, _)
eraseMax(m, t) ==
    IF m.node[t].right = NULL THEN Ret(m, m.node[t].left)
    ELSE balance(StoreRight(eraseMax(m, m.node[t].right), t), t)

\* the loop of nextNode: climb while t is the right child of its parent
RECURSIVE climbRight(_, _)
climbRight(m, t) ==
    IF m.node[t].parent # NULL /\ m.node[m.node[t].parent].right = t
    THEN climbRight(m, m.node[t].parent)
    ELSE t

nextNode(m, t) ==
    IF m.node[t].right # NULL THEN findMin(m, m.node[t].right)
    ELSE m.node[climbRight(m, t)].parent

\* the loop of prevNode: climb while t is the left child of its parent
RECURSIVE climbLeft(_, _)
climbLeft(m, t) ==
    IF m.node[t].parent # NULL /\ m.node[m.node[t].parent].left = t
    THEN climbLeft(m, m.node[t].parent)
    ELSE t

prevNode(m, t) ==
    IF m.node[t].left # NULL THEN findMax(m, m.node[t].left)
    ELSE m.node[climbLeft(m, t)].parent

RECURSIVE AVLInsert(_, _, _, _, _)
RECURSIVE InsertBelow(_, _, _)
\* InsertBelow with the two recursive calls swapped
InsertBelowSwapped(a, arena, key) ==
    IF isKeyEqual(a.m.node[a.t].key, key) THEN a
    ELSE IF Less(a.m.node[a.t].key, key) THEN
        balance(StoreLeft(AVLInsert(a.m, arena, a.m.node[a.t].left, key, a.t),
                          a.t), a.t)
    ELSE
        balance(StoreRight(AVLInsert(a.m, arena, a.m.node[a.t].right, key, a.t),
                           a.t), a.t)

\* AVLInsert from its isKeyEqual test on, a.t being the node t refers to
InsertBelow(a, arena, key) ==
    IF isKeyEqual(a.m.node[a.t].key, key) THEN a
    ELSE IF Less(a.m.node[a.t].key, key) THEN
        balance(StoreRight(AVLInsert(a.m, arena, a.m.node[a.t].right, key, a.t),
                           a.t), a.t)
    ELSE
        balance(StoreLeft(AVLInsert(a.m, arena, a.m.node[a.t].left, key, a.t),
                          a.t), a.t)

\* AVLInsert without the isKeyEqual return at a node that exists already
AVLInsertDuplicates(m, arena, t, key, parent) ==
    IF t = NULL THEN new(m, arena, TreeNode(key, parent))
    ELSE IF Less(m.node[t].key, key) THEN
        balance(StoreRight(AVLInsert(m, arena, m.node[t].right, key, t), t), t)
    ELSE
        balance(StoreLeft(AVLInsert(m, arena, m.node[t].left, key, t), t), t)

AVLInsert(m, arena, t, key, parent) ==
    InsertBelow(IF t = NULL THEN new(m, arena, TreeNode(key, parent)) ELSE Ret(m, t),
                arena, key)

\* Relink without t->left = l
RelinkNoLeft(e, mn, l) == [e.m EXCEPT !.node[mn].right = e.t]

\* AVLErase, r # NULL: t = findMin(r); t->right = eraseMin(r); t->left = l
Relink(e, mn, l) == [e.m EXCEPT !.node[mn].right = e.t, !.node[mn].left = l]

SpliceMin(m, l, r, mn) == balance(Relink(eraseMin(m, r), mn, l), mn)

\* AVLErase on the node with the key, after delete t
Splice(m, l, r) ==
    IF r # NULL THEN SpliceMin(m, l, r, findMin(m, r)) ELSE balance(m, l)

RECURSIVE AVLErase(_, _, _)
\* erase by copying: the successor's key is written into t and the successor
\* node mn is released in place of t
KeyCopied(e, t, mn) ==
    balance(delete([e.m EXCEPT !.node[t].key = e.m.node[mn].key,
                               !.node[t].right = e.t], mn), t)

\* AVLErase that keeps the node with two children and copies the key of its
\* successor into it
AVLEraseCopiesKey(m, t, key) ==
    IF t = NULL THEN Ret(m, NULL)
    ELSE IF isKeyEqual(m.node[t].key, key) THEN
        IF m.node[t].right = NULL
        THEN Splice(delete(m, t), m.node[t].left, NULL)
        ELSE KeyCopied(eraseMin(m, m.node[t].right), t,
                       findMin(m, m.node[t].right))
    ELSE IF Less(m.node[t].key, key) THEN
        balance(StoreRight(AVLErase(m, m.node[t].right, key), t), t)
    ELSE
        balance(StoreLeft(AVLErase(m, m.node[t].left, key), t), t)

\* AVLErase that reads t->left and t->right after delete t
AVLEraseReadsReleased(m, t, key) ==
    IF t = NULL THEN Ret(m, NULL)
    ELSE IF isKeyEqual(m.node[t].key, key) THEN
        Splice(delete(m, t), delete(m, t).node[t].left,
               delete(m, t).node[t].right)
    ELSE IF Less(m.node[t].key, key) THEN
        balance(StoreRight(AVLErase(m, m.node[t].right, key), t), t)
    ELSE
        balance(StoreLeft(AVLErase(m, m.node[t].left, key), t), t)

\* AVLErase with the two recursive calls swapped
AVLEraseSwapped(m, t, key) ==
    IF t = NULL THEN Ret(m, NULL)
    ELSE IF isKeyEqual(m.node[t].key, key) THEN
        Splice(delete(m, t), m.node[t].left, m.node[t].right)
    ELSE IF Less(m.node[t].key, key) THEN
        balance(StoreLeft(AVLErase(m, m.node[t].left, key), t), t)
    ELSE
        balance(StoreRight(AVLErase(m, m.node[t].right, key), t), t)

AVLErase(m, t, key) ==
    IF t = NULL THEN Ret(m, NULL)
    ELSE IF isKeyEqual(m.node[t].key, key) THEN
        Splice(delete(m, t), m.node[t].left, m.node[t].right)
    ELSE IF Less(m.node[t].key, key) THEN
        balance(StoreRight(AVLErase(m, m.node[t].right, key), t), t)
    ELSE
        balance(StoreLeft(AVLErase(m, m.node[t].left, key), t), t)

RECURSIVE AVLFind(_, _, _)
\* AVLFind that descends to the wrong side
AVLFindSwapped(m, t, key) ==
    IF t = NULL THEN NULL
    ELSE IF isKeyEqual(m.node[t].key, key) THEN t
    ELSE IF Less(m.node[t].key, key) THEN AVLFind(m, m.node[t].left, key)
    ELSE AVLFind(m, m.node[t].right, key)

AVLFind(m, t, key) ==
    IF t = NULL THEN NULL
    ELSE IF isKeyEqual(m.node[t].key, key) THEN t
    ELSE IF Less(m.node[t].key, key) THEN AVLFind(m, m.node[t].right, key)
    ELSE AVLFind(m, m.node[t].left, key)

\* tmp returned also when it is null
OrElseNull(tmp, t) == tmp

\* tmp ? tmp : t
OrElse(tmp, t) == IF tmp # NULL THEN tmp ELSE t

RECURSIVE AVLLowerBound(_, _, _)
AVLLowerBound(m, t, key) ==
    IF t = NULL THEN NULL
    ELSE IF isKeyEqual(m.node[t].key, key) THEN t
    ELSE IF Less(key, m.node[t].key) THEN
        OrElse(AVLLowerBound(m, m.node[t].left, key), t)
    ELSE AVLLowerBound(m, m.node[t].right, key)

RECURSIVE copyTree(_, _, _)
RECURSIVE CopyBelow(_, _, _)
\* CopyBelow without the two recursive calls: the copy of a node keeps the
\* child links that new TreeNode(*from) copied from the source
CopyBelowShallow(c, arena, src) == Ret(update(c.m, c.t), c.t)

\* CopyBelow without the final update(to)
CopyBelowNoUpdate(c, arena, src) ==
    Ret(StoreRight(copyTree(StoreLeft(copyTree(c.m, arena, src.left), c.t),
                            arena, src.right),
                   c.t),
        c.t)

\* copyTree after to = new TreeNode(*from): c.t is to, src is *from
CopyBelow(c, arena, src) ==
    Ret(update(StoreRight(copyTree(StoreLeft(copyTree(c.m, arena, src.left), c.t),
                                   arena, src.right),
                          c.t),
               c.t),
        c.t)

copyTree(m, arena, from) ==
    IF from = NULL THEN Ret(m, NULL)
    ELSE CopyBelow(new(m, arena, m.node[from]), arena, m.node[from])

RECURSIVE deleteTree(_, _)
deleteTree(m, t) ==
    IF t = NULL THEN Ret(m, NULL)
    ELSE Ret(delete(StoreRight(deleteTree(StoreLeft(deleteTree(m, m.node[t].left), t),
                                          m.node[t].right),
                               t),
                    t),
             NULL)

\* ------------------------------------------------------------------------
\* What a state holds, read off the links (used to state properties)

\* the nodes of the subtree rooted at t
RECURSIVE Nodes(_, _)
Nodes(m, t) ==
    IF t = NULL THEN {}
    ELSE {t} \cup Nodes(m, m.node[t].left) \cup Nodes(m, m.node[t].right)

KeysOf(m, t) == {m.node[x].key : x \in Nodes(m, t)}

RECURSIVE TrueHeight(_, _)
TrueHeight(m, t) ==
    IF t = NULL THEN 0
    ELSE 1 + Max(TrueHeight(m, m.node[t].left), TrueHeight(m, m.node[t].right))

\* the nodes below t in in-order, by left and right links alone
RECURSIVE InOrder(_, _)
InOrder(m, t) ==
    IF t = NULL THEN << >>
    ELSE InOrder(m, m.node[t].left) \o <<t>> \o InOrder(m, m.node[t].right)

TrueSize(m, t) == Cardinality(Nodes(m, t))

\* ------------------------------------------------------------------------
\* Public interface of Set, as pure functions of the heap and the root

size(m, r) == cnt(m, r)

empty(m, r) == size(m, r) = 0

\* iterator(node, parent)
iterator(node, s) == [node |-> node, parent |-> s]

\* iterator(): both pointers null
NoIt == iterator(NULL, "none")

begin(m, r, s) == iterator(findMin(m, r), s)

end(s) == iterator(NULL, s)

find(m, r, s, key) == iterator(AVLFind(m, r, key), s)

lower_bound(m, r, s, key) == iterator(AVLLowerBound(m, r, key), s)

\* iterator::operator++
Incr(m, i) == iterator(nextNode(m, i.node), i.parent)

\* iterator::operator--
Decr(m, rt, i) ==
    iterator(IF i.node # NULL THEN prevNode(m, i.node) ELSE findMax(m, rt[i.parent]),
             i.parent)

\* iterator::operator*
Deref(m, i) == m.node[i.node].key

\* the nodes visited by ++ from cursor i until end(), at most fuel steps
RECURSIVE Walk(_, _, _, _)
Walk(m, i, s, fuel) ==
    IF i = end(s) \/ fuel = 0 THEN <<>>
    ELSE <<i.node>> \o Walk(m, Incr(m, i), s, fuel - 1)

\* the nodes visited by -- from cursor i until begin(), at most fuel steps
RECURSIVE WalkBack(_, _, _, _, _)
WalkBack(m, rt, i, s, fuel) ==
    IF i = begin(m, rt[s], s) \/ fuel = 0 THEN <<>>
    ELSE LET j == Decr(m, rt, i)
         IN  <<j.node>> \o WalkBack(m, rt, j, s, fuel - 1)

Fuel == Cardinality(Ids) + 1

Forward(m, rt, s) == Walk(m, begin(m, rt[s], s), s, Fuel)

Backward(m, rt, s) == WalkBack(m, rt, end(s), s, Fuel)

KeySeq(m, q) == [j \in 1..Len(q) |-> m.node[q[j]].key]

\* ------------------------------------------------------------------------
\* Operations

NoOp ==
    [op |-> "none", set |-> "none", other |-> "none", key |-> 0,
     had |-> FALSE, keys0 |-> {}, size0 |-> 0,
     at |-> NULL, root0 |-> NULL, nodes0 |-> {}, cur |-> NoIt, run |-> 0]

\* what the client saw of Set s right before calling op: whether it held k
\* and at which node, its keys, its size(), its root, its nodes, and the
\* client's iterator when it is valid and at one of these nodes; run is n while the calls made since construction are
\* exactly insert(1), insert(2), ..., insert(n), and -1 after any other call
Observed(op, s, o, k) ==
    [op |-> op, set |-> s, other |-> o, key |-> k,
     had |-> (s \in alive /\ AVLFind(mem, root[s], k) # NULL),
     keys0 |-> IF s \in alive THEN KeysOf(mem, root[s]) ELSE {},
     size0 |-> IF s \in alive THEN size(mem, root[s]) ELSE 0,
     at |-> IF s \in alive THEN AVLFind(mem, root[s], k) ELSE NULL,
     root0 |-> IF s \in alive THEN root[s] ELSE NULL,
     nodes0 |-> IF s \in alive THEN Nodes(mem, root[s]) ELSE {},
     cur |-> IF s \in alive /\ ~stale /\ it.parent = s
                   /\ it.node \in Nodes(mem, root[s])
             THEN it ELSE NoIt,
     run |-> IF op = "insert" /\ k = last.run + 1 THEN k ELSE -1]

\* the heap as an operation finds it, with an empty log
Enter(h) == [node |-> h.node, live |-> h.live, freed |-> <<>>, bals |-> {}]

NoLog == [freed |-> <<>>, bals |-> {}]

\* what an operation on an iterator can leave in it when it reads released
\* storage (undefined behaviour): any pointer, the Set pointer as it was
Wild(i) == {iterator(n, i.parent) : n \in Ids \cup {NULL}}

\* the iterator is stale after an operation that passed the addresses f to
\* delete and ended the life of Set d: it was stale before, or it pointed at
\* one of these nodes or into that Set
Released(f, d) ==
    \/ stale
    \/ d \in Sets /\ it.parent = d
    \/ it.node # NULL /\ \E j \in 1..Len(f) : f[j] = it.node

\* an iterator that points at no object: at an address not in use, or into a
\* Set that is not constructed
Lost(i, m) == (i.node # NULL /\ i.node \notin m.live) \/ i.parent \notin alive

Init ==
    /\ mem = [node |-> [i \in Ids |-> Garbage], live |-> {}]
    /\ root = [s \in Sets |-> NULL]
    /\ alive = {"a"}
    /\ it = NoIt
    /\ last = NoOp
    /\ log = NoLog
    /\ stale = FALSE

\* two empty Sets, a and b
InitBalance ==
    /\ mem = [node |-> [i \in Ids |-> Garbage], live |-> {}]
    /\ root = [s \in Sets |-> NULL]
    /\ alive = Sets
    /\ it = NoIt
    /\ last = NoOp
    /\ log = NoLog
    /\ stale = FALSE

\* the call wrote r.t through the root of s and left the heap r.m
Returns(s, r) ==
    /\ mem' = [node |-> r.m.node, live |-> r.m.live]
    /\ root' = [root EXCEPT ![s] = r.t]
    /\ log' = [freed |-> r.m.freed, bals |-> r.m.bals]

\* Set()
Default(s) ==
    /\ s \notin alive
    /\ alive' = alive \cup {s}
    /\ root' = [root EXCEPT ![s] = NULL]
    /\ last' = Observed("construct", s, "none", 0)
    /\ log' = NoLog
    /\ UNCHANGED <<mem, it, stale>>

\* for (...) insert(value): the values of q inserted one after the other
RECURSIVE insertEach(_, _, _)
insertEach(r, arena, q) ==
    IF q = << >> THEN r
    ELSE insertEach(AVLInsert(r.m, arena, r.t, Head(q), NULL), arena, Tail(q))

\* Set(iteratorType first, iteratorType last), q being the range
RangeConstruct(s, q) ==
    /\ s \notin alive
    /\ Returns(s, insertEach(Ret(Enter(mem), NULL), Arena(s), q))
    /\ alive' = alive \cup {s}
    /\ last' = Observed("range", s, "none", 0)
    /\ UNCHANGED <<it, stale>>

\* Set(std::initializer_list<ValueType> init), q being the list
ListConstruct(s, q) ==
    /\ s \notin alive
    /\ Returns(s, insertEach(Ret(Enter(mem), NULL), Arena(s), q))
    /\ alive' = alive \cup {s}
    /\ last' = Observed("initlist", s, "none", 0)
    /\ UNCHANGED <<it, stale>>

\* Set(const Set& other)
CopyConstruct(s, o) ==
    /\ s \notin alive
    /\ o \in alive
    /\ Returns(s, copyTree(Enter(mem), Arena(s), root[o]))
    /\ alive' = alive \cup {s}
    /\ last' = Observed("copy", s, o, 0)
    /\ UNCHANGED <<it, stale>>

\* operator= without the test this != &other: deleteTree(root) nulls the root
\* that other.root names too when other is *this
AssignNoSelfCheck(s, o) ==
    /\ s \in alive
    /\ o \in alive
    /\ Returns(s, copyTree(deleteTree(Enter(mem), root[s]).m, Arena(s),
                            IF s = o THEN NULL ELSE root[o]))
    /\ last' = Observed("assign", s, o, 0)
    /\ stale' = Released(log'.freed, "none")
    /\ UNCHANGED <<alive, it>>

\* operator=(const Set& other)
Assign(s, o) ==
    /\ s \in alive
    /\ o \in alive
    /\ IF s # o
       THEN Returns(s, copyTree(deleteTree(Enter(mem), root[s]).m, Arena(s),
                               root[o]))
       ELSE /\ log' = NoLog
            /\ UNCHANGED <<mem, root>>
    /\ last' = Observed("assign", s, o, 0)
    /\ stale' = Released(log'.freed, "none")
    /\ UNCHANGED <<alive, it>>

\* ~Set()
Destroy(s) ==
    /\ s \in alive
    /\ Returns(s, deleteTree(Enter(mem), root[s]))
    /\ alive' = alive \ {s}
    /\ last' = Observed("destroy", s, "none", 0)
    /\ stale' = Released(log'.freed, s)
    /\ UNCHANGED it

\* insert(value)
Insert(s, k) ==
    /\ s \in alive
    /\ Returns(s, AVLInsert(Enter(mem), Arena(s), root[s], k, NULL))
    /\ last' = Observed("insert", s, "none", k)
    /\ UNCHANGED <<alive, it, stale>>

\* erase(value)
Erase(s, k) ==
    /\ s \in alive
    /\ Returns(s, AVLErase(Enter(mem), root[s], k))
    /\ last' = Observed("erase", s, "none", k)
    /\ stale' = Released(log'.freed, "none")
    /\ UNCHANGED <<alive, it>>

\* it = begin()
Begin(s) ==
    /\ s \in alive
    /\ it' = begin(mem, root[s], s)
    /\ stale' = FALSE
    /\ UNCHANGED <<mem, root, alive, last, log>>

\* it = end()
End(s) ==
    /\ s \in alive
    /\ it' = end(s)
    /\ stale' = FALSE
    /\ UNCHANGED <<mem, root, alive, last, log>>

\* it = find(key)
Find(s, k) ==
    /\ s \in alive
    /\ it' = find(mem, root[s], s, k)
    /\ stale' = FALSE
    /\ UNCHANGED <<mem, root, alive, last, log>>

\* it = lower_bound(key)
LowerBound(s, k) ==
    /\ s \in alive
    /\ it' = lower_bound(mem, root[s], s, k)
    /\ stale' = FALSE
    /\ UNCHANGED <<mem, root, alive, last, log>>

\* ++it, on an iterator that is not end(): nextNode(node).  Through a stale
\* iterator the read of the node is undefined behaviour: any pointer results.
Inc ==
    /\ it.node # NULL
    /\ IF stale THEN it' \in Wild(it) ELSE it' = Incr(mem, it)
    /\ stale' = Lost(it', mem)
    /\ UNCHANGED <<mem, root, alive, last, log>>

\* --it: prevNode(node), or findMax(parent->root) at end().  --begin() gives
\* end().  Through a stale iterator the read of the node, or of the root of
\* the Set, is undefined behaviour: any pointer results.
Dec ==
    /\ it.parent \in Sets
    /\ IF stale THEN it' \in Wild(it) ELSE it' = Decr(mem, root, it)
    /\ stale' = Lost(it', mem)
    /\ UNCHANGED <<mem, root, alive, last, log>>

\* balance(t) applied to a heap and a pointer
balanceAt(r) == balance(r.m, r.t)

\* the node t handed to balance(): the tree of a is its left subtree, the
\* tree of b its right subtree, and its own cached height and size are h, c
Joint(h, c) ==
    [TreeNode(Pivot, NULL) EXCEPT !.left = root["a"], !.right = root["b"],
                                  !.height = h, !.cnt = c]

\* balance(t) wrote r.t through its TreeNode*& parameter, here the root of a
Balanced(r) ==
    /\ mem' = [node |-> r.m.node, live |-> r.m.live]
    /\ root' = [s \in Sets |-> IF s = "a" THEN r.t ELSE NULL]
    /\ log' = [freed |-> r.m.freed, bals |-> r.m.bals]

\* balance(t) on a node t whose subtrees are two reachable trees with true
\* heights at most 2 apart
ApplyBalance(h, c) ==
    /\ alive = Sets
    /\ last.op # "balance"
    /\ TrueHeight(mem, root["a"]) - TrueHeight(mem, root["b"]) \in -2..2
    /\ Balanced(balanceAt(new(Enter(mem), Arena("a"), Joint(h, c))))
    /\ alive' = {"a"}
    /\ last' = Observed("balance", "a", "b", Pivot)
    /\ UNCHANGED <<it, stale>>

\* one Set, a: insert and erase over the keys 1..MaxKey
Next ==
    \/ \E k \in Keys : Insert("a", k)
    \/ \E k \in Keys : Erase("a", k)

Spec == Init /\ [][Next]_vars

\* two Sets, a and b, over the keys 1..MaxCopyKey
NextCopy ==
    \/ \E s \in Sets : Default(s)
    \/ \E s \in Sets, q \in InitLists : RangeConstruct(s, q)
    \/ \E s \in Sets, q \in InitLists : ListConstruct(s, q)
    \/ \E s \in Sets, o \in Sets : CopyConstruct(s, o)
    \/ \E s \in Sets, o \in Sets : Assign(s, o)
    \/ \E s \in Sets : Destroy(s)
    \/ \E s \in Sets, k \in CopyKeys : Insert(s, k)
    \/ \E s \in Sets, k \in CopyKeys : Erase(s, k)

SpecCopy == Init /\ [][NextCopy]_vars

\* two trees, a over LeftKeys and b over RightKeys, built by insert, and one
\* call of balance() on a node over the two
NextBalance ==
    \/ \E k \in LeftKeys : last.op # "balance" /\ Insert("a", k)
    \/ \E k \in RightKeys : last.op # "balance" /\ Insert("b", k)
    \/ \E h \in StaleFields, c \in StaleFields : ApplyBalance(h, c)

SpecBalance == InitBalance /\ [][NextBalance]_vars

\* one Set, a, and one iterator into it, over the keys 1..MaxIterKey
NextIter ==
    \/ \E k \in IterKeys : Insert("a", k)
    \/ \E k \in IterKeys : Erase("a", k)
    \/ Begin("a")
    \/ End("a")
    \/ \E k \in IterKeys : Find("a", k)
    \/ \E k \in IterKeys : LowerBound("a", k)
    \/ Inc
    \/ Dec

SpecIter == Init /\ [][NextIter]_vars

\* ------------------------------------------------------------------------
\* Properties

Tree(s) == Nodes(mem, root[s])

Key(x) == mem.node[x].key

Reverse(q) == [j \in 1..Len(q) |-> q[Len(q) + 1 - j]]

Increasing(q) == \A j \in 1..(Len(q) - 1) : q[j] < q[j + 1]

Range(q) == {q[j] : j \in 1..Len(q)}

\* the keys a search is asked for: the stored range and one key on each side
QueryKeys == 0..(MaxKey + 1)

\* C1: after any sequence of insert and erase calls the tree is a binary
\* search tree without duplicates: at every node, every key of the left
\* subtree is strictly less than the node's key and every key of the right
\* subtree is strictly greater.
C1_BinarySearchTree ==
    \A s \in alive : \A x \in Tree(s) :
        /\ \A y \in Nodes(mem, mem.node[x].left) : Key(y) < Key(x)
        /\ \A y \in Nodes(mem, mem.node[x].right) : Key(x) < Key(y)

C1_Witness ==
    /\ last.op = "erase" /\ last.had /\ last.size0 >= 6
    /\ \E x \in Tree("a") : mem.node[x].left # NULL /\ mem.node[x].right # NULL
                            /\ x # root["a"]

\* C2: once insert or erase has returned, every node is height-balanced: the
\* true heights of its two subtrees differ by at most 1.
C2_HeightBalanced ==
    \A s \in alive : \A x \in Tree(s) :
        LET d == TrueHeight(mem, mem.node[x].right) - TrueHeight(mem, mem.node[x].left)
        IN  -1 <= d /\ d <= 1

\* a node with two children was erased from a tree of 7 nodes
C2_Witness ==
    /\ last.op = "erase" /\ last.had /\ last.size0 >= 7
    /\ TrueHeight(mem, root["a"]) = 3
    /\ size(mem, root["a"]) = 6

\* C3: insert(x) on a tree holding the key set S leaves it holding exactly
\* S \cup {x}: x is found afterwards, and size() grew by 1 if x was not in S
\* and by 0 if it was.
C3_InsertAddsKey ==
    last.op = "insert" =>
        /\ KeysOf(mem, root[last.set]) = last.keys0 \cup {last.key}
        /\ Range(KeySeq(mem, Forward(mem, root, last.set))) = last.keys0 \cup {last.key}
        /\ find(mem, root[last.set], last.set, last.key) # end(last.set)
        /\ size(mem, root[last.set]) =
              last.size0 + (IF last.key \in last.keys0 THEN 0 ELSE 1)

C3_Witness ==
    /\ last.op = "insert" /\ ~last.had /\ last.size0 >= 4
    /\ size(mem, root[last.set]) = last.size0 + 1

\* C4: erase(x) on a tree holding the key set S leaves it holding exactly
\* S \ {x}: if x was in S, size() drops by exactly 1 and no other key is lost;
\* if x was not in S, the call is a no-op: the allocated nodes are the same,
\* every node keeps its key, links, height and size, the root is the same,
\* and the key set and size() are unchanged.
C4_EraseRemovesKey ==
    [][last'.op = "erase" =>
          /\ KeysOf(mem', root'[last'.set]) =
                KeysOf(mem, root[last'.set]) \ {last'.key}
          /\ Range(KeySeq(mem', Forward(mem', root', last'.set))) =
                KeysOf(mem, root[last'.set]) \ {last'.key}
          /\ size(mem', root'[last'.set]) =
                size(mem, root[last'.set])
                - (IF last'.key \in KeysOf(mem, root[last'.set]) THEN 1 ELSE 0)
          /\ last'.key \notin KeysOf(mem, root[last'.set]) =>
                /\ mem' = mem
                /\ root' = root
                /\ alive' = alive
      ]_vars

\* a key whose node has two children was erased
C4_Witness ==
    /\ last.op = "erase" /\ last.had /\ last.size0 >= 5
    /\ \E k \in KeysOf(mem, root[last.set]) : k < last.key
    /\ \E k \in KeysOf(mem, root[last.set]) : k > last.key
    /\ size(mem, root[last.set]) = last.size0 - 1

\* C5: insert(x) on a tree that already stores x changes nothing: no node is
\* allocated and every node keeps its key, links, height and size.
C5_InsertOfStoredKeyIsNoOp ==
    [][(last'.op = "insert" /\ last'.had) =>
           (mem' = mem /\ root' = root /\ alive' = alive)]_vars

C5_Witness ==
    /\ last.op = "insert" /\ last.had /\ last.size0 >= 4
    /\ mem.node[root[last.set]].key # last.key

\* C6: after erase(x) returns, find(x) equals end(), whether or not x was
\* stored.
C6_EraseThenFind ==
    last.op = "erase" =>
        find(mem, root[last.set], last.set, last.key) = end(last.set)

C6_Witness ==
    /\ last.op = "erase" /\ last.had /\ last.size0 >= 3
    /\ find(mem, root[last.set], last.set, last.key) = end(last.set)

\* C7: lower_bound(x) is the cursor at the smallest stored key k with k >= x,
\* and it is end() exactly when no stored key is >= x.
C7_LowerBound ==
    \A s \in alive : \A x \in QueryKeys :
        LET c == lower_bound(mem, root[s], s, x)
            K == KeysOf(mem, root[s])
        IN  /\ c.parent = s
            /\ (c = end(s)) <=> ~(\E k \in K : k >= x)
            /\ c # end(s) =>
                  /\ c.node \in Tree(s)
                  /\ Deref(mem, c) >= x
                  /\ ~(\E k \in K : x <= k /\ k < Deref(mem, c))

\* a query between two stored keys, answered by a node that is not the root
C7_Witness ==
    \E x \in QueryKeys :
        LET c == lower_bound(mem, root["a"], "a", x)
        IN  /\ c # end("a")
            /\ Deref(mem, c) > x
            /\ c.node # root["a"]
            /\ \E k \in KeysOf(mem, root["a"]) : k < x
            /\ size(mem, root["a"]) >= 5

\* C8: ++ from begin() to end() visits the stored keys in strictly increasing
\* order, -- from end() to begin() visits the same nodes in reverse order; ++
\* at the maximum key gives end() and -- at end() gives the maximum key.
C8_Traversal ==
    \A s \in alive :
        LET f == Forward(mem, root, s)
            b == Backward(mem, root, s)
            mx == findMax(mem, root[s])
        IN  /\ Increasing(KeySeq(mem, f))
            /\ Range(f) = Tree(s)
            /\ b = Reverse(f)
            /\ root[s] # NULL =>
                  /\ Incr(mem, iterator(mx, s)) = end(s)
                  /\ Decr(mem, root, end(s)) = iterator(mx, s)
                  /\ \A x \in Tree(s) : Key(x) <= Key(mx)

\* a key was erased from the tree of 7 nodes and both walks visit the other 6
C8_Witness ==
    /\ last.op = "erase" /\ last.had /\ last.size0 = 7
    /\ Len(Forward(mem, root, "a")) = 6
    /\ Len(Backward(mem, root, "a")) = 6

\* C9: after any sequence of insert, erase, copy construction and assignment,
\* size() equals the number of ++ steps from begin() to end(), and empty()
\* holds exactly when begin() = end().
C9_SizeIsTraversalLength ==
    \A s \in alive :
        /\ size(mem, root[s]) = Len(Forward(mem, root, s))
        /\ empty(mem, root[s]) <=> (begin(mem, root[s], s) = end(s))

C9_Witness ==
    /\ last.op = "assign" /\ last.set # last.other
    /\ size(mem, root[last.set]) = 3
    /\ last.size0 = 1

\* C10: after every public mutating operation every node's cached height is
\* 1 + the larger true height of its subtrees, and its cached size is the
\* true number of nodes of its subtree.
C10_CachedFieldsExact ==
    \A s \in alive : \A x \in Tree(s) :
        /\ mem.node[x].height =
              1 + Max(TrueHeight(mem, mem.node[x].left),
                      TrueHeight(mem, mem.node[x].right))
        /\ mem.node[x].cnt = TrueSize(mem, x)

C10_Witness ==
    /\ last.op = "copy"
    /\ size(mem, root[last.set]) = 3
    /\ TrueHeight(mem, root[last.set]) = 2
    /\ size(mem, root[last.other]) = 3


\* C11: after every public mutating operation (insert, erase, copy
\* construction, assignment) the parent link of every node points to the node
\* whose left or right link points to it, and the parent link of the root is
\* null, although update() sets the parent link of the node it updates to null.
C11_ParentLinks ==
    \A s \in alive :
        /\ root[s] # NULL => mem.node[root[s]].parent = NULL
        /\ \A x \in Tree(s) :
              /\ mem.node[x].left # NULL =>
                    mem.node[mem.node[x].left].parent = x
              /\ mem.node[x].right # NULL =>
                    mem.node[mem.node[x].right].parent = x

\* the root with two children was erased: its successor is the new root, and
\* the left child, whose parent link pointed to the released node, points to it
C11_Witness ==
    /\ last.op = "erase" /\ last.had /\ last.size0 = 3
    /\ last.at # NULL /\ last.at \notin Tree(last.set)
    /\ mem.node[root[last.set]].left # NULL
    /\ mem.node[root[last.set]].right = NULL
    /\ mem.node[mem.node[root[last.set]].left].parent = root[last.set]


\* C12: after b is copy-constructed or assigned from a, b holds the same keys
\* as a and shares no node with it; an operation on one Set leaves the other
\* Set's root, nodes, links, keys and find() results unchanged.
C12_CopiesAreIndependent ==
    [][/\ \A s \in alive' : \A o \in alive' \ {s} :
              Nodes(mem', root'[s]) \cap Nodes(mem', root'[o]) = {}
       /\ last'.op \in {"copy", "assign"} =>
              KeysOf(mem', root'[last'.set]) = KeysOf(mem, root[last'.other])
       /\ \A o \in (alive \cap alive') \ {last'.set} :
              /\ root'[o] = root[o]
              /\ \A x \in Nodes(mem, root[o]) :
                    x \in mem'.live /\ mem'.node[x] = mem.node[x]
              /\ KeysOf(mem', root'[o]) = KeysOf(mem, root[o])
              /\ \A k \in 0..(MaxCopyKey + 1) :
                    find(mem', root'[o], o, k) = find(mem, root[o], o, k)
      ]_vars

\* b held the keys of a, a key was erased from b, and a still holds it
C12_Witness ==
    /\ alive = Sets
    /\ last.op = "erase" /\ last.set = "b" /\ last.had
    /\ last.keys0 = KeysOf(mem, root["a"])
    /\ Cardinality(last.keys0) = 3
    /\ find(mem, root["a"], "a", last.key) # end("a")
    /\ find(mem, root["b"], "b", last.key) = end("b")


\* C13: the assignment a = a releases and allocates no node and leaves the
\* tree as it is; the assignment a = b from another Set releases every node a
\* owned, each once, and leaves a with exactly the keys of b.
C13_Assignment ==
    [][last'.op = "assign" =>
          IF last'.set = last'.other
          THEN /\ mem' = mem
               /\ root' = root
               /\ log'.freed = << >>
          ELSE /\ Range(log'.freed) = Nodes(mem, root[last'.set])
               /\ Len(log'.freed) = Cardinality(Nodes(mem, root[last'.set]))
               /\ KeysOf(mem', root'[last'.set]) = KeysOf(mem, root[last'.other])
      ]_vars

\* a Set of three keys was assigned to itself and still holds them
C13_Witness ==
    /\ last.op = "assign" /\ last.set = last.other
    /\ last.size0 = 3
    /\ Tree(last.set) = last.nodes0
    /\ KeysOf(mem, root[last.set]) = last.keys0


\* the least and the greatest key of a set of keys
Least(S) == CHOOSE k \in S : \A q \in S : k <= q
Greatest(S) == CHOOSE k \in S : \A q \in S : q <= k

\* C14: an iterator at the node with key j stays valid across any insert(x)
\* and any erase(k) with k not equivalent to j: its node is not released and
\* stays in the tree, the node's key is not rewritten, so * still yields j,
\* and ++ and -- from it yield the neighbours of j in the set after the
\* mutation.
C14_IteratorStaysValid ==
    [][(/\ last' # last
        /\ last'.op \in {"insert", "erase"}
        /\ ~stale
        /\ it.node \in Nodes(mem, root[last'.set])
        /\ it.parent = last'.set
        /\ ~(last'.op = "erase" /\ isKeyEqual(last'.key, Deref(mem, it))))
       => /\ it' = it
          /\ ~stale'
          /\ it.node \in mem'.live
          /\ \A i \in 1..Len(log'.freed) : log'.freed[i] # it.node
          /\ it.node \in Nodes(mem', root'[it.parent])
          /\ mem'.node[it.node].key = mem.node[it.node].key
          /\ Deref(mem', it') = Deref(mem, it)
          /\ Incr(mem', it') =
                IF \E k \in KeysOf(mem', root'[it.parent]) : k > Deref(mem, it)
                THEN find(mem', root'[it.parent], it.parent,
                          Least({k \in KeysOf(mem', root'[it.parent]) :
                                    k > Deref(mem, it)}))
                ELSE end(it.parent)
          /\ (\E k \in KeysOf(mem', root'[it.parent]) : k < Deref(mem, it))
                => Decr(mem', root', it') =
                      find(mem', root'[it.parent], it.parent,
                           Greatest({k \in KeysOf(mem', root'[it.parent]) :
                                        k < Deref(mem, it)}))
      ]_vars

\* the root, with two children, was erased while the iterator was at its
\* successor: the node the iterator is at is the new root
C14_Witness ==
    /\ last.op = "erase" /\ last.had
    /\ last.at = last.root0
    /\ last.cur = it
    /\ ~stale
    /\ it.node # NULL
    /\ it.node = root[it.parent]
    /\ mem.node[it.node].left # NULL
    /\ Deref(mem, it) = Least({k \in last.keys0 : k > last.key})


\* the addresses a node record links to
Links(n) == {n.left, n.right, n.parent} \ {NULL}

\* C15: the nodes allocated and not released are exactly the nodes reachable
\* from the roots of the live Sets, each owned by one Set; erase of a present
\* key releases exactly one node, the one that held the key, and erase of an
\* absent key releases none; destruction and assignment from another Set
\* release every node the Set owned, each exactly once; no other operation
\* releases a node, and no root or link of a node in use names a released
\* node.
C15_Ownership ==
    /\ mem.live = UNION {Tree(s) : s \in alive}
    /\ \A s \in alive : \A o \in alive \ {s} : Tree(s) \cap Tree(o) = {}
    /\ \A s \in Sets : s \notin alive => root[s] = NULL
    /\ \A x \in mem.live : Links(mem.node[x]) \subseteq mem.live
    /\ \A i \in 1..Len(log.freed) : \A j \in 1..Len(log.freed) :
          i # j => log.freed[i] # log.freed[j]
    /\ Range(log.freed) \subseteq last.nodes0
    /\ last.op = "erase" =>
          log.freed = IF last.had THEN <<last.at>> ELSE << >>
    /\ (last.op = "destroy" \/ (last.op = "assign" /\ last.set # last.other))
          => Range(log.freed) = last.nodes0
    /\ (last.op \in {"none", "construct", "range", "initlist", "copy", "insert"}
            \/ (last.op = "assign" /\ last.set = last.other))
          => log.freed = << >>

\* a Set of three nodes was assigned from the other Set: its three nodes were
\* released and the nodes in use are those of the two trees
C15_Witness ==
    /\ last.op = "assign" /\ last.set # last.other
    /\ Len(log.freed) = 3
    /\ Cardinality(last.nodes0) = 3
    /\ Cardinality(Tree(last.set)) = 2
    /\ mem.live = Tree("a") \cup Tree("b")


\* C16: find(x) returns an iterator at the node of the tree whose key is
\* equivalent to x when such a key is stored, and end() otherwise.
C16_Find ==
    \A s \in alive : \A x \in QueryKeys :
        IF x \in KeysOf(mem, root[s])
        THEN /\ find(mem, root[s], s, x).parent = s
             /\ find(mem, root[s], s, x).node \in Tree(s)
             /\ isKeyEqual(Deref(mem, find(mem, root[s], s, x)), x)
        ELSE find(mem, root[s], s, x) = end(s)

\* a tree of height 3 after an erase: find of a stored key ends at a node two
\* links below the root, and find of the erased key returns end()
C16_Witness ==
    /\ last.op = "erase" /\ last.had
    /\ find(mem, root["a"], "a", last.key) = end("a")
    /\ \E x \in KeysOf(mem, root["a"]) :
          /\ find(mem, root["a"], "a", x).node # root["a"]
          /\ mem.node[find(mem, root["a"], "a", x).node].parent # root["a"]


\* C17: after insert(1), insert(2), ..., insert(7), in this order, into the
\* empty set, the tree has height at most 3, the forward traversal yields
\* 1, 2, ..., 7 and size() is 7.
C17_AscendingInserts ==
    last.run = 7 =>
        /\ TrueHeight(mem, root["a"]) <= 3
        /\ KeySeq(mem, Forward(mem, root, "a")) = <<1, 2, 3, 4, 5, 6, 7>>
        /\ size(mem, root["a"]) = 7

\* the seventh ascending insert has returned; its balance() calls saw the
\* factor +2 and rotated
C17_Witness ==
    /\ last.run = 7
    /\ last.op = "insert" /\ last.key = 7 /\ ~last.had
    /\ \E e \in log.bals : e.b = 2


\* every node below t is height-balanced and caches its exact height
BalancedExact(m, t) ==
    \A x \in Nodes(m, t) :
        /\ TrueHeight(m, m.node[x].left) - TrueHeight(m, m.node[x].right)
              \in -1..1
        /\ m.node[x].height = TrueHeight(m, x)

\* C18: balance(t), for a non-null t whose two subtrees are height-balanced
\* with exact cached heights and true heights at most 2 apart, writes back a
\* subtree that is height-balanced at every node, consists of the same node
\* objects in the same in-order sequence with the same keys, has exact cached
\* heights and sizes, and is as high as the taller input subtree or one
\* higher.
C18_BalanceRestores ==
    [][(/\ last'.op = "balance"
        /\ last.op # "balance"
        /\ BalancedExact(mem, root["a"])
        /\ BalancedExact(mem, root["b"])
        /\ TrueHeight(mem, root["a"]) - TrueHeight(mem, root["b"]) \in -2..2)
       => /\ Cardinality(mem'.live \ mem.live) = 1
          /\ mem.live \subseteq mem'.live
          /\ \E t \in mem'.live \ mem.live :
                InOrder(mem', root'["a"]) =
                    InOrder(mem, root["a"]) \o <<t>> \o InOrder(mem, root["b"])
          /\ \A x \in mem.live : mem'.node[x].key = mem.node[x].key
          /\ BalancedExact(mem', root'["a"])
          /\ \A x \in Nodes(mem', root'["a"]) :
                mem'.node[x].cnt = TrueSize(mem', x)
          /\ TrueHeight(mem', root'["a"])
                - Max(TrueHeight(mem, root["a"]), TrueHeight(mem, root["b"]))
                \in 0..1
      ]_vars

\* balance() was called over a left tree of height 3 and a right tree of
\* height 1, saw the factor -2 and wrote back a tree of height 3 or 4
C18_Witness ==
    /\ last.op = "balance"
    /\ \E e \in log.bals : e.b = -2 /\ e.l = 3 /\ e.r = 1
    /\ TrueHeight(mem, root["a"]) \in 3..4
    /\ mem.node[root["a"]].key # Pivot


\* C19: during any insert or erase on a reachable tree, at every call of
\* balance(t) with a non-null t, also inside the eraseMin recursion and on
\* the successor that erase splices in, the balance factor computed after
\* update(t) is one of -2, -1, 0, 1, 2, and so is the difference of the two
\* cached heights it is computed from.
C19_BalanceFactorRange ==
    \A e \in log.bals : e.b \in -2..2 /\ e.r - e.l \in -2..2

\* the root was erased and balance() on the successor spliced in its place
\* saw the factor -2: no right subtree left, a left subtree of height 2
C19_Witness ==
    /\ last.op = "erase" /\ last.had
    /\ last.at = last.root0
    /\ \E e \in log.bals : e.b = -2 /\ e.l = 2 /\ e.r = 0


\* C20: getBalance(t) returns the signed difference height(t->right) -
\* height(t->left) for every node of a reachable tree and at every balance()
\* call, also when the left subtree is the taller one: the size_t subtraction
\* wraps, and the conversion to int yields the negative difference (-1, -2),
\* not a large positive value.
C20_SignedBalance ==
    /\ \A s \in alive : \A x \in Tree(s) :
          getBalance(mem, x) =
              height(mem, mem.node[x].right) - height(mem, mem.node[x].left)
    /\ \A e \in log.bals : e.b = e.r - e.l

\* a node of the tree has the taller subtree on its left, and a balance()
\* call of the last operation read -2
C20_Witness ==
    /\ \E x \in Tree("a") :
          /\ height(mem, mem.node[x].left) > height(mem, mem.node[x].right)
          /\ Wrap(height(mem, mem.node[x].right)
                   - height(mem, mem.node[x].left)) = SizeMod - 1
          /\ getBalance(mem, x) = -1
    /\ \E e \in log.bals : e.l = e.r + 2 /\ e.b = -2

====
